---- MODULE Spec2Model ----
(***************************************************************************)
(* Elliptic-curve VRF of insights_for_trusted_setup/                       *)
(* vrf_ECC_form_N_subjects.py: Point, EllipticCurve, ECVRF.                *)
(*                                                                         *)
(* The curve keeps the shape of secp256k1 (y^2 = x^3 + 7 over a prime      *)
(* field with p = 3 mod 4, a group of prime order n < p, cofactor 1) at a  *)
(* size TLC can enumerate: p = 43, n = 31.  Coordinates are encoded on     *)
(* CoordLen bytes and digests have DigestLen bytes, where the source uses  *)
(* 32; hash_to_curve tries HashAttempts candidates where the source tries  *)
(* 1000.  Python values keep their behaviour: None, integers of any sign,  *)
(* exceptions by class, and a loop that never exits.                       *)
(***************************************************************************)
EXTENDS Integers, Sequences, FiniteSets, TLC

VARIABLES vrf, issued, call

vars == <<vrf, issued, call>>

(***************************************************************************)
(* Python values and outcomes of a call                                    *)
(***************************************************************************)

\* Python's None, as the default of Point.__init__'s x and y.
None == -1

\* A call returns a value, raises an exception of a class, or never ends.
Return(v) == [kind |-> "return", value |-> v]

Raise(e) == [kind |-> "raise", value |-> e]

Diverge == [kind |-> "diverge", value |-> FALSE]

Returned(o) == o.kind = "return"

\* The classes `except Exception` catches among those the code can raise.
ExceptionClasses ==
    {"Exception", "AttributeError", "TypeError", "ValueError", "OverflowError"}

(***************************************************************************)
(* Bytes, integers and the digest                                          *)
(***************************************************************************)

\* Width of a coordinate's encoding, x.to_bytes(32, 'big') in the source.
CoordLen == 1

\* Width of a digest, 32 bytes for hashlib.sha256 in the source.
DigestLen == 1

Pow2(i) == 2 ^ i

\* The number of digests.
DigestSpace == Pow2(8 * DigestLen)

\* int.to_bytes(length, 'big'): AttributeError on None, OverflowError on a
\* negative integer or one that does not fit.
to_bytes(v, length) ==
    IF v = None THEN Raise("AttributeError")
    ELSE IF v < 0 \/ v >= Pow2(8 * length) THEN Raise("OverflowError")
    ELSE Return([i \in 1..length |-> (v \div Pow2(8 * (length - i))) % 256])

RECURSIVE from_bytes_to(_, _)
from_bytes_to(bytes, i) ==
    IF i = 0 THEN 0 ELSE 256 * from_bytes_to(bytes, i - 1) + bytes[i]

\* int.from_bytes(bytes, 'big')
from_bytes(bytes) == from_bytes_to(bytes, Len(bytes))

\* The digest's chaining value after the first i bytes of data: every byte
\* and its position change the value, and the value space is finite, so
\* distinct inputs can share a digest.
RECURSIVE sha256_state(_, _)
sha256_state(data, i) ==
    IF i = 0 THEN 47
    ELSE (sha256_state(data, i - 1) * 251 + 7 * data[i] + 131)
             % DigestSpace

\* hashlib.sha256(data).digest(): DigestLen bytes.
sha256(data) == to_bytes(sha256_state(data, Len(data)), DigestLen).value

(***************************************************************************)
(* Point and EllipticCurve                                                 *)
(***************************************************************************)

\* Point.__init__
Point(x, y) == [x |-> x, y |-> y, infinity |-> (x = None /\ y = None)]

\* Point.__eq__
PointEq(P, Q) ==
    IF P.infinity /\ Q.infinity THEN TRUE ELSE P.x = Q.x /\ P.y = Q.y

\* EllipticCurve.__init__: the field prime, the group order, the
\* coefficients and the generator.
CurveP == 43

CurveN == 31

CurveA == 0

CurveB == 7

EllipticCurve ==
    [p |-> CurveP, n |-> CurveN, a |-> CurveA, b |-> CurveB, G |-> Point(2, 12)]

\* range(1000) of hash_to_curve.
HashAttempts == 3

\* pow(base, exp, mod) for exp >= 0, by squaring: h is base^(exp div 2).
pow_square(h, base, exp, mod) ==
    IF exp % 2 = 1 THEN (h * h * base) % mod ELSE (h * h) % mod

RECURSIVE pow(_, _, _)
pow(base, exp, mod) ==
    IF exp = 0 THEN 1 % mod
    ELSE pow_square(pow(base, exp \div 2, mod), base, exp, mod)

\* The lines of extended_gcd after the recursive call returned
\* r = (gcd, x1, y1).
extended_gcd_back(r, a, b) == <<r[1], r[3] - (b \div a) * r[2], r[2]>>

\* EllipticCurve.extended_gcd: <<gcd, x, y>>
RECURSIVE extended_gcd(_, _)
extended_gcd(a, b) ==
    IF a = 0 THEN <<b, 0, 1>>
    ELSE extended_gcd_back(extended_gcd(b % a, a), a, b)

\* The lines of mod_inverse after e = (gcd, x, _) is computed.
mod_inverse_of(e, m) ==
    IF e[1] # 1 THEN Raise("Exception") ELSE Return(e[2] % m)

\* EllipticCurve.mod_inverse
mod_inverse(a, m) ==
    mod_inverse_of(extended_gcd(IF a < 0 THEN ((a % m) + m) % m ELSE a, m), m)

\* Faulty variant of point_add_slope: the sign of the y formula is wrong,
\* y = s * (x - P.x) - P.y.
point_add_slope_y_sign(c, P, Q, inv) ==
    IF ~Returned(inv) THEN inv
    ELSE LET s == IF P.x = Q.x
                  THEN ((3 * P.x * P.x + c.a) * inv.value) % c.p
                  ELSE ((Q.y - P.y) * inv.value) % c.p
             x == (s * s - P.x - Q.x) % c.p
             y == (s * (x - P.x) - P.y) % c.p
         IN  Return(Point(x, y))

\* The lines of point_add from the slope on; inv is the outcome of the
\* mod_inverse call of the doubling or of the addition branch.
point_add_slope(c, P, Q, inv) ==
    IF ~Returned(inv) THEN inv
    ELSE LET s == IF P.x = Q.x
                  THEN ((3 * P.x * P.x + c.a) * inv.value) % c.p
                  ELSE ((Q.y - P.y) * inv.value) % c.p
             x == (s * s - P.x - Q.x) % c.p
             y == (s * (P.x - x) - P.y) % c.p
         IN  Return(Point(x, y))

\* Faulty variant of point_add: the two rules for the point at infinity are
\* missing.
point_add_without_identity(c, P, Q) ==
    IF P.x = Q.x /\ P.y # Q.y THEN Return(Point(None, None))
    ELSE IF None \in {P.x, P.y, Q.x, Q.y} THEN Raise("TypeError")
    ELSE point_add_slope(c, P, Q,
             mod_inverse(IF P.x = Q.x THEN 2 * P.y ELSE Q.x - P.x, c.p))

\* EllipticCurve.point_add.  Arithmetic on a missing coordinate is a
\* TypeError.
point_add(c, P, Q) ==
    IF P.infinity THEN Return(Q)
    ELSE IF Q.infinity THEN Return(P)
    ELSE IF P.x = Q.x /\ P.y # Q.y THEN Return(Point(None, None))
    ELSE IF None \in {P.x, P.y, Q.x, Q.y} THEN Raise("TypeError")
    ELSE point_add_slope(c, P, Q,
             mod_inverse(IF P.x = Q.x THEN 2 * P.y ELSE Q.x - P.x, c.p))

\* The while loop of scalar_mult from the state (k, result, addend).  k >>= 1
\* is the floor of k / 2, so a negative k stays at -1 and the loop is left
\* only by an exception; seen holds the (result, addend) pairs the loop has
\* been in with k = -1, and the loop never ends once a pair comes back.
RECURSIVE scalar_mult_loop(_, _, _, _, _)

\* Faulty variant of scalar_mult_body: addend is added whatever the low bit
\* of k is.
scalar_mult_body_adds_every_bit(c, k, result, addend, seen, r1, a1) ==
    IF ~Returned(point_add(c, result, addend))
    THEN point_add(c, result, addend)
    ELSE IF ~Returned(a1) THEN a1
    ELSE scalar_mult_loop(c, k \div 2, point_add(c, result, addend).value,
             a1.value,
             IF k = -1 THEN seen \cup {<<result, addend>>} ELSE seen)

\* One pass of the loop body: r1 is the outcome of `result = point_add(result,
\* addend)` (or result, when k is even) and a1 of `addend = point_add(addend,
\* addend)`.
scalar_mult_body(c, k, result, addend, seen, r1, a1) ==
    IF ~Returned(r1) THEN r1
    ELSE IF ~Returned(a1) THEN a1
    ELSE scalar_mult_loop(c, k \div 2, r1.value, a1.value,
             IF k = -1 THEN seen \cup {<<result, addend>>} ELSE seen)

scalar_mult_loop(c, k, result, addend, seen) ==
    IF k = 0 THEN Return(result)
    ELSE IF k = -1 /\ <<result, addend>> \in seen THEN Diverge
    ELSE scalar_mult_body(c, k, result, addend, seen,
             IF k % 2 = 1 THEN point_add(c, result, addend)
             ELSE Return(result),
             point_add(c, addend, addend))

\* Faulty variant of scalar_mult: result starts at P instead of the point
\* at infinity.
scalar_mult_starts_at_P(c, k, P) ==
    IF k = 0 THEN Return(Point(None, None))
    ELSE IF k = 1 THEN Return(P)
    ELSE scalar_mult_loop(c, k, P, P, {})

\* EllipticCurve.scalar_mult
scalar_mult(c, k, P) ==
    IF k = 0 THEN Return(Point(None, None))
    ELSE IF k = 1 THEN Return(P)
    ELSE scalar_mult_loop(c, k, Point(None, None), P, {})

\* The for loop of hash_to_curve from candidate x with i attempts made.
RECURSIVE hash_to_curve_from(_, _, _)

\* Faulty variant of hash_to_curve_body: the candidate is taken without the
\* test of Euler's criterion.
hash_to_curve_body_untested(c, x, i, y_squared) ==
    Return(Point(x, pow(y_squared, (c.p + 1) \div 4, c.p)))

\* One pass of the loop body, y_squared computed.
hash_to_curve_body(c, x, i, y_squared) ==
    IF pow(y_squared, (c.p - 1) \div 2, c.p) = 1
    THEN Return(Point(x, pow(y_squared, (c.p + 1) \div 4, c.p)))
    ELSE hash_to_curve_from(c, (x + 1) % c.p, i + 1)

hash_to_curve_from(c, x, i) ==
    IF i = HashAttempts THEN Return(c.G)
    ELSE hash_to_curve_body(c, x, i, (pow(x, 3, c.p) + c.b) % c.p)

\* EllipticCurve.hash_to_curve
hash_to_curve(c, message) ==
    hash_to_curve_from(c, from_bytes(sha256(message)) % c.p, 0)

(***************************************************************************)
(* ECVRF                                                                   *)
(***************************************************************************)

\* ECVRF.__init__ with private_key the value secrets.randbelow returned.
ECVRF(private_key) ==
    [curve       |-> EllipticCurve,
     private_key |-> private_key,
     public_key  |-> scalar_mult(EllipticCurve, private_key,
                                 EllipticCurve.G).value]

\* bx + by for the outcomes of two to_bytes calls, left to right.
bytes_concat(bx, by) ==
    IF ~Returned(bx) THEN bx
    ELSE IF ~Returned(by) THEN by
    ELSE Return(bx.value \o by.value)

\* P.x.to_bytes(32, 'big') + P.y.to_bytes(32, 'big')
coord_bytes(P) == bytes_concat(to_bytes(P.x, CoordLen), to_bytes(P.y, CoordLen))

\* challenge_data: the coordinates of the points, in order; the first
\* coordinate that cannot be encoded raises.
RECURSIVE challenge_data(_)
challenge_data(points) ==
    IF points = <<>> THEN Return(<<>>)
    ELSE bytes_concat(coord_bytes(Head(points)), challenge_data(Tail(points)))

\* int.from_bytes(hashlib.sha256(challenge_data).digest(), 'big') % n
challenge(c, data) == from_bytes(sha256(data)) % c.n

\* Faulty variant of evaluate_locals_at: the VRF point is computed with the
\* nonce in place of the private key.
evaluate_locals_nonce_VRF(self, r, H) ==
    [H   |-> H,
     VRF |-> scalar_mult(self.curve, r, H.value),
     rG  |-> scalar_mult(self.curve, r, self.curve.G),
     rH  |-> scalar_mult(self.curve, r, H.value)]

\* The locals of evaluate computed from H and the nonce r: VRF, rG, rH.
evaluate_locals_at(self, r, H) ==
    [H   |-> H,
     VRF |-> scalar_mult(self.curve, self.private_key, H.value),
     rG  |-> scalar_mult(self.curve, r, self.curve.G),
     rH  |-> scalar_mult(self.curve, r, H.value)]

\* The locals of evaluate before the challenge is hashed: H, VRF, rG, rH.
evaluate_locals(self, message, r) ==
    evaluate_locals_at(self, r, hash_to_curve(self.curve, message))

\* The lines of evaluate from the challenge s on.
evaluate_proof(self, r, VRF, s) ==
    Return(<<sha256(coord_bytes(VRF).value),
             <<s, (r - s * self.private_key) % self.curve.n, VRF>>>>)

\* The lines of evaluate from challenge_data on; data is its outcome.
evaluate_challenge(self, r, l, data) ==
    IF ~Returned(data) THEN data
    ELSE evaluate_proof(self, r, l.VRF.value,
                        challenge(self.curve, data.value))

\* The lines of evaluate after the locals l are computed.
evaluate_from(self, r, l) ==
    IF ~Returned(l.VRF) THEN l.VRF
    ELSE IF ~Returned(l.rG) THEN l.rG
    ELSE IF ~Returned(l.rH) THEN l.rH
    ELSE evaluate_challenge(self, r, l,
             challenge_data(<<self.curve.G, l.H.value, self.public_key,
                              l.VRF.value, l.rG.value, l.rH.value>>))

\* ECVRF.evaluate with r the nonce secrets.randbelow returned.
evaluate(self, message, r) ==
    evaluate_from(self, r, evaluate_locals(self, message, r))

\* point_add(scalar_mult(..), scalar_mult(..)) for the outcomes a and b of
\* the two scalar_mult calls, left to right.
commitment(c, a, b) ==
    IF ~Returned(a) THEN a
    ELSE IF ~Returned(b) THEN b
    ELSE point_add(c, a.value, b.value)

\* challenge_data of verify; U and W are the outcomes of tG_plus_sP and
\* tH_plus_sVRF.
verify_data(self, H, VRF, U, W) ==
    IF ~Returned(U) THEN U
    ELSE IF ~Returned(W) THEN W
    ELSE challenge_data(<<self.curve.G, H, self.public_key, VRF,
                          U.value, W.value>>)

\* Faulty variant of verify_challenge_data_at: s * pk is recomputed from
\* the holder's private key as (s * sk) * G.
verify_challenge_data_by_private_key(self, proof, H) ==
    verify_data(self, H, proof[3],
        commitment(self.curve,
                   scalar_mult(self.curve, proof[2], self.curve.G),
                   scalar_mult(self.curve, proof[1] * self.private_key,
                               self.curve.G)),
        commitment(self.curve,
                   scalar_mult(self.curve, proof[2], H),
                   scalar_mult(self.curve, proof[1], proof[3])))

\* The lines of verify from the commitments to challenge_data, for the
\* proof (s, t, VRF) and the point H of the message.
verify_challenge_data_at(self, proof, H) ==
    verify_data(self, H, proof[3],
        commitment(self.curve,
                   scalar_mult(self.curve, proof[2], self.curve.G),
                   scalar_mult(self.curve, proof[1], self.public_key)),
        commitment(self.curve,
                   scalar_mult(self.curve, proof[2], H),
                   scalar_mult(self.curve, proof[1], proof[3])))

\* The challenge data verify recomputes from the message and the proof
\* (s, t, VRF), or the exception or endless loop that stops it.
verify_challenge_data(self, message, proof) ==
    verify_challenge_data_at(self, proof,
                             hash_to_curve(self.curve, message).value)

\* Faulty variant of verify_compare: the challenge is recomputed but not
\* compared with s.
verify_compare_output_only(self, vrf_output, proof, data) ==
    IF ~Returned(data) THEN data
    ELSE Return(vrf_output = sha256(coord_bytes(proof[3]).value))

\* Faulty variant of verify_compare: the output is not compared with the
\* digest of V.
verify_compare_challenge_only(self, vrf_output, proof, data) ==
    IF ~Returned(data) THEN data
    ELSE Return(proof[1] = challenge(self.curve, data.value))

\* Faulty variant of verify_compare: `or` in place of `and`, one matching
\* comparison is enough.
verify_compare_either(self, vrf_output, proof, data) ==
    IF ~Returned(data) THEN data
    ELSE Return(\/ proof[1] = challenge(self.curve, data.value)
                \/ vrf_output = sha256(coord_bytes(proof[3]).value))

\* The lines of verify from expected_s on; data is the outcome of
\* challenge_data.
verify_compare(self, vrf_output, proof, data) ==
    IF ~Returned(data) THEN data
    ELSE IF proof[1] # challenge(self.curve, data.value) THEN Return(FALSE)
    ELSE Return(vrf_output = sha256(coord_bytes(proof[3]).value))

\* The body of verify's try block.
verify_try(self, message, vrf_output, proof) ==
    IF Len(proof) # 3 THEN Raise("ValueError")
    ELSE verify_compare(self, vrf_output, proof,
                        verify_challenge_data(self, message, proof))

\* Faulty variant of verify_except: `except ValueError` in place of
\* `except Exception`.
verify_except_value_error(o) ==
    IF o.kind = "raise" /\ o.value = "ValueError" THEN Return(FALSE) ELSE o

\* `except Exception: return False` on the outcome o of the try block.
verify_except(o) ==
    IF o.kind = "raise" /\ o.value \in ExceptionClasses
    THEN Return(FALSE)
    ELSE o

\* ECVRF.verify
verify(self, message, vrf_output, proof) ==
    verify_except(verify_try(self, message, vrf_output, proof))

(***************************************************************************)
(* Inputs of the calls                                                     *)
(***************************************************************************)

\* Longest message, in bytes.
MaxMsgLen == 2

\* Highest bit position a tampering flips in a scalar or a coordinate: the
\* bits of a scalar below n and one position beyond them.
MaxFlipBit == 5

\* The byte b't' messages are made of.
MsgBytes == {116}

Messages == UNION {[1..l -> MsgBytes] : l \in 0..MaxMsgLen}

\* The values secrets.randbelow(n) returns.
RandBelowN == 0..(EllipticCurve.n - 1)

\* v with bit i flipped, for v >= 0.
BitFlip(v, i) ==
    IF (v \div Pow2(i)) % 2 = 1 THEN v - Pow2(i) ELSE v + Pow2(i)

\* bytes with bit j flipped, bit 0 the lowest bit of the last byte.
BytesFlip(bytes, j) ==
    LET at == Len(bytes) - (j \div 8)
    IN  [bytes EXCEPT ![at] = BitFlip(bytes[at], j % 8)]

\* (message, output, proof) of e with exactly one of s, t, V, output changed
\* in one bit.
TamperedS(e) ==
    {<<e.message, e.vrf_output,
       <<BitFlip(e.proof[1], i), e.proof[2], e.proof[3]>>>> : i \in 0..MaxFlipBit}

TamperedT(e) ==
    {<<e.message, e.vrf_output,
       <<e.proof[1], BitFlip(e.proof[2], i), e.proof[3]>>>> : i \in 0..MaxFlipBit}

TamperedV(e) ==
    {<<e.message, e.vrf_output,
       <<e.proof[1], e.proof[2],
         Point(BitFlip(e.proof[3].x, i), e.proof[3].y)>>>> : i \in 0..MaxFlipBit}
    \cup
    {<<e.message, e.vrf_output,
       <<e.proof[1], e.proof[2],
         Point(e.proof[3].x, BitFlip(e.proof[3].y, i))>>>> : i \in 0..MaxFlipBit}

TamperedOutput(e) ==
    {<<e.message, BytesFlip(e.vrf_output, j), e.proof>> :
         j \in 0..(8 * DigestLen - 1)}

Tampered(e) ==
    TamperedS(e) \cup TamperedT(e) \cup TamperedV(e) \cup TamperedOutput(e)

\* The issued output and proof presented with another message.
OtherMessage(e) ==
    {<<m, e.vrf_output, e.proof>> : m \in Messages \ {e.message}}

\* The issued proof with a scalar moved by the group order.
ShiftedScalar(e) ==
    LET n == EllipticCurve.n
    IN  {<<e.message, e.vrf_output,
           <<e.proof[1] + d, e.proof[2], e.proof[3]>>>> : d \in {n, -n}}
        \cup
        {<<e.message, e.vrf_output,
           <<e.proof[1], e.proof[2] + d, e.proof[3]>>>> : d \in {n, -n}}

\* Proofs no evaluate call produced: scalars of any sign and size, V the
\* point at infinity, with a coordinate missing, off the curve with y = 0,
\* too large for the encoding, or on the curve; and a proof of two items.
ForgedScalars == {-1, 0, 2, EllipticCurve.n}

ForgedPoints ==
    {Point(None, None), Point(5, None), Point(None, 5), Point(2, 0),
     Point(300, 12), Point(7, 7)}

\* The digest of encoded coordinates, or of no bytes when the encoding
\* raised.
sha256_of(b) == IF Returned(b) THEN sha256(b.value) ELSE sha256(<<>>)

ForgedOutput(V) == sha256_of(coord_bytes(V))

Forged ==
    {<<m, ForgedOutput(V), <<s, t, V>>>> :
         m \in Messages, s \in ForgedScalars, t \in ForgedScalars,
         V \in ForgedPoints}
    \cup {<<m, sha256(<<>>), <<0, 0>>>> : m \in Messages}

(***************************************************************************)
(* The run: one instance, one participant with one message                 *)
(***************************************************************************)

Idle ==
    [op |-> "idle", message |-> <<>>, r |-> None, vrf_output |-> <<>>,
     proof |-> <<>>, locals |-> <<>>, outcome |-> Return(None)]

\* main: vrf = ECVRF(); no message is processed yet.
Init ==
    /\ vrf \in {ECVRF(private_key) : private_key \in RandBelowN}
    /\ issued = <<>>
    /\ call = Idle

\* Faulty variant of EvaluateCall: an evaluate call that raises clears the
\* private key of the instance.
EvaluateCallClearsKey(message, r, l, o) ==
    /\ call' = [op |-> "evaluate", message |-> message, r |-> r,
                vrf_output |-> <<>>, proof |-> <<>>, locals |-> l,
                outcome |-> o]
    /\ issued' = IF Returned(o)
                 THEN <<[message |-> message, vrf_output |-> o.value[1],
                         proof |-> o.value[2]]>>
                 ELSE issued
    /\ vrf' = IF Returned(o) THEN vrf ELSE [vrf EXCEPT !.private_key = 0]

\* The caller's state after an evaluate call with locals l and outcome o.
EvaluateCall(message, r, l, o) ==
    /\ call' = [op |-> "evaluate", message |-> message, r |-> r,
                vrf_output |-> <<>>, proof |-> <<>>, locals |-> l,
                outcome |-> o]
    /\ issued' = IF Returned(o)
                 THEN <<[message |-> message, vrf_output |-> o.value[1],
                         proof |-> o.value[2]]>>
                 ELSE issued
    /\ UNCHANGED vrf

\* process_vrf_for_participants for the participant's message: evaluate, and
\* on return the output and proof are kept with the message.
Evaluate(message, r) ==
    /\ call.op = "idle"
    /\ issued = <<>>
    /\ EvaluateCall(message, r, evaluate_locals(vrf, message, r),
                    evaluate(vrf, message, r))

\* A verify call with the given arguments.
VerifyCall(message, vrf_output, proof) ==
    /\ call' = [op |-> "verify", message |-> message, r |-> None,
                vrf_output |-> vrf_output, proof |-> proof, locals |-> <<>>,
                outcome |-> verify(vrf, message, vrf_output, proof)]
    /\ UNCHANGED <<vrf, issued>>

\* verify_all_proofs: the kept output and proof with their message.
VerifyIssued ==
    /\ call.op = "idle"
    /\ issued # <<>>
    /\ VerifyCall(issued[1].message, issued[1].vrf_output, issued[1].proof)

\* verify on what a third party presents: the issued proof tampered with,
\* presented with another message, or with a scalar moved by n.
VerifyPresented ==
    /\ call.op = "idle"
    /\ issued # <<>>
    /\ \E a \in Tampered(issued[1]) \cup OtherMessage(issued[1])
                  \cup ShiftedScalar(issued[1]) :
           VerifyCall(a[1], a[2], a[3])

\* verify on a proof that comes from no evaluate call.
VerifyForged ==
    /\ call.op = "idle"
    /\ issued = <<>>
    /\ \E a \in Forged : VerifyCall(a[1], a[2], a[3])

\* The call has returned or raised and the caller goes on; a call that
\* never ends keeps the caller.
Continue ==
    /\ call.op # "idle"
    /\ call.outcome.kind # "diverge"
    /\ call' = Idle
    /\ UNCHANGED <<vrf, issued>>

\* The program's run and verify as a library call on arbitrary proofs.
Next ==
    \/ \E message \in Messages, r \in RandBelowN : Evaluate(message, r)
    \/ VerifyIssued
    \/ VerifyForged
    \/ Continue

Spec == Init /\ [][Next]_vars

\* The run with a third party that presents issued proofs back, changed.
NextPresented ==
    \/ \E message \in Messages, r \in RandBelowN : Evaluate(message, r)
    \/ VerifyIssued
    \/ VerifyPresented
    \/ Continue

SpecPresented == Init /\ [][NextPresented]_vars

\* verify on an issued proof with the output changed in one bit, with s
\* changed in one bit, or with a scalar moved by the group order.
VerifyAltered ==
    /\ call.op = "idle"
    /\ issued # <<>>
    /\ \E a \in TamperedOutput(issued[1]) \cup TamperedS(issued[1])
                  \cup ShiftedScalar(issued[1]) :
           VerifyCall(a[1], a[2], a[3])

\* The run with verify called on issued proofs, on altered copies of them
\* and on proofs that come from no evaluate call.
NextAltered ==
    \/ \E message \in Messages, r \in RandBelowN : Evaluate(message, r)
    \/ VerifyIssued
    \/ VerifyAltered
    \/ VerifyForged
    \/ Continue

SpecAltered == Init /\ [][NextAltered]_vars

(***************************************************************************)
(* Participants, process_vrf_for_participants and                          *)
(* analyze_collective_randomness                                           *)
(***************************************************************************)

\* Most participants main asks for.
MaxParticipants == 2

\* Most messages of a participant; generate_random_participants draws
\* secrets.randbelow(3) + 1 of them.
MaxMessages == 2

\* message.encode('utf-8') of the messages participants hold.
ParticipantMessages == {<<116>>, <<116, 116>>}

\* VRFParticipant.__init__ and the messages generate_random_participants
\* appends.
VRFParticipant(name, messages) ==
    [name |-> name, messages |-> messages, vrf_outputs |-> <<>>,
     proofs |-> <<>>]

\* The lists generate_random_participants can return.
Participants ==
    UNION {{[i \in 1..np |-> VRFParticipant(i, ms[i])] :
                ms \in [1..np -> UNION {[1..l -> ParticipantMessages] :
                                            l \in 1..MaxMessages}]} :
               np \in 1..MaxParticipants}

\* The nonces secrets.randbelow returns to the evaluate calls of one run, in
\* call order: consecutive values from a first one.
NonceRuns ==
    {[i \in 1..(MaxParticipants * MaxMessages) |->
          (first + i - 1) % EllipticCurve.n] : first \in {0, 1, 2}}

\* Private keys of the instances that process participants.
ParticipantKeys == {0, 3, 17}

RECURSIVE process_messages(_, _, _, _, _)

\* The body of the inner loop of process_vrf_for_participants after
\* evaluate ended with outcome o: the result is appended to all_results,
\* or the exception leaves the function.
process_append(self, participant, messages, nonces, all_results, o) ==
    IF ~Returned(o) THEN o
    ELSE process_messages(self, participant, Tail(messages), nonces,
             Append(all_results,
                    [participant |-> participant.name,
                     message     |-> Head(messages),
                     vrf_output  |-> o.value[1],
                     proof       |-> o.value[2]]))

\* The inner loop of process_vrf_for_participants over the messages left of
\* one participant; the next evaluate call draws nonces[Len(all_results) + 1].
process_messages(self, participant, messages, nonces, all_results) ==
    IF messages = <<>> THEN Return(all_results)
    ELSE process_append(self, participant, messages, nonces, all_results,
             evaluate(self, Head(messages), nonces[Len(all_results) + 1]))

RECURSIVE process_participants(_, _, _, _)

\* The outer loop after the inner loop of the first participant left
\* ended with outcome done.
process_next(self, participants, nonces, done) ==
    IF ~Returned(done) THEN done
    ELSE process_participants(self, Tail(participants), nonces, done.value)

\* The outer loop of process_vrf_for_participants over the participants
\* left.
process_participants(self, participants, nonces, all_results) ==
    IF participants = <<>> THEN Return(all_results)
    ELSE process_next(self, participants, nonces,
             process_messages(self, Head(participants),
                              Head(participants).messages, nonces,
                              all_results))

\* process_vrf_for_participants(participants, vrf): all_results, or the
\* exception of the evaluate call that raised.
process_vrf_for_participants(participants, self, nonces) ==
    process_participants(self, participants, nonces, <<>>)

\* The items of all_results of the participant named name, in order.
results_of(all_results, name) ==
    SelectSeq(all_results, LAMBDA result : result.participant = name)

\* The participants after the calls appended to vrf_outputs and proofs what
\* all_results holds.
participants_after(participants, all_results) ==
    [i \in 1..Len(participants) |->
        [participants[i] EXCEPT
            !.vrf_outputs =
                [k \in 1..Len(results_of(all_results, participants[i].name))
                    |-> results_of(all_results,
                                   participants[i].name)[k].vrf_output],
            !.proofs =
                [k \in 1..Len(results_of(all_results, participants[i].name))
                    |-> results_of(all_results,
                                   participants[i].name)[k].proof]]]

\* combined_output of analyze_collective_randomness: the loop
\* `combined_output += result['vrf_output']` over all_results.
RECURSIVE combined_output(_)
combined_output(all_results) ==
    IF all_results = <<>> THEN <<>>
    ELSE combined_output(SubSeq(all_results, 1, Len(all_results) - 1))
             \o all_results[Len(all_results)].vrf_output

\* Faulty variant of analyze_collective_randomness: `=` in place of `+=`,
\* only the last output is hashed.
analyze_last_output(all_results) ==
    sha256(all_results[Len(all_results)].vrf_output)

\* analyze_collective_randomness: collective_hash
analyze_collective_randomness(all_results) ==
    sha256(combined_output(all_results))

\* main: vrf = ECVRF(); nothing is processed yet.
InitCollective ==
    /\ vrf \in {ECVRF(private_key) : private_key \in ParticipantKeys}
    /\ issued = <<>>
    /\ call = Idle

\* The caller's state after process_vrf_for_participants ended with
\* outcome o: all_results is kept when it returned.
ProcessCall(participants, o) ==
    /\ call' = [Idle EXCEPT
                   !.op = "process",
                   !.locals = [participants |->
                                   IF Returned(o)
                                   THEN participants_after(participants, o.value)
                                   ELSE participants],
                   !.outcome = o]
    /\ issued' = IF Returned(o) THEN o.value ELSE issued
    /\ UNCHANGED vrf

\* main: all_results = process_vrf_for_participants(participants, vrf)
Process(participants, nonces) ==
    /\ call.op = "idle"
    /\ issued = <<>>
    /\ ProcessCall(participants,
                   process_vrf_for_participants(participants, vrf, nonces))

\* main: collective_hash = analyze_collective_randomness(all_results)
Analyze ==
    /\ call.op = "idle"
    /\ issued # <<>>
    /\ call' = [Idle EXCEPT !.op = "analyze",
                            !.outcome =
                                Return(analyze_collective_randomness(issued))]
    /\ UNCHANGED <<vrf, issued>>

NextCollective ==
    \/ \E participants \in Participants, nonces \in NonceRuns :
           Process(participants, nonces)
    \/ Analyze
    \/ Continue

SpecCollective == InitCollective /\ [][NextCollective]_vars

(***************************************************************************)
(* evaluate and verify called from threads on one instance, statement by   *)
(* statement; call holds one call per thread                               *)
(***************************************************************************)

Threads == {1, 2}

\* The nonces secrets.randbelow returns to the threads' evaluate calls.
ThreadNonces == {0, 1, 5}

\* The locals of a call that has not assigned them yet.
NoLocals ==
    [H |-> Return(None), VRF |-> Return(None), rG |-> Return(None),
     rH |-> Return(None), tG_plus_sP |-> Return(None),
     tH_plus_sVRF |-> Return(None)]

\* A thread that is in no call.
IdleThread ==
    [op |-> "idle", message |-> <<>>, r |-> None, vrf_output |-> <<>>,
     proof |-> <<>>, pc |-> "idle", l |-> NoLocals, outcome |-> Return(None)]

\* What the threads pass to verify: the output and proof an evaluate call
\* returned, with its message or with another one.
ThreadVerifyArgs(self) ==
    {<<m2, o.value[1], o.value[2]>> :
         m2 \in ParticipantMessages,
         o \in {e \in {evaluate(self, m1, r) : m1 \in ParticipantMessages,
                                               r \in ThreadNonces} :
                   Returned(e)}}

\* The call ends: with the value or exception of o, or never when o is a
\* loop that does not end.
thread_ends(th, o) ==
    [th EXCEPT !.pc = IF o.kind = "diverge" THEN "loop" ELSE "done",
               !.outcome = o]

\* The next statement of evaluate in the thread th: hash_to_curve, the VRF
\* point, the commitments rG and rH, then the lines from challenge_data to
\* the return.
evaluate_step(self, th) ==
    IF th.pc = "H"
    THEN [th EXCEPT !.pc = "VRF",
                    !.l.H = hash_to_curve(self.curve, th.message)]
    ELSE IF th.pc = "VRF"
    THEN [th EXCEPT !.pc = "rG",
                    !.l.VRF = scalar_mult(self.curve, self.private_key,
                                          th.l.H.value)]
    ELSE IF th.pc = "rG"
    THEN [th EXCEPT !.pc = "rH",
                    !.l.rG = scalar_mult(self.curve, th.r, self.curve.G)]
    ELSE IF th.pc = "rH"
    THEN [th EXCEPT !.pc = "challenge",
                    !.l.rH = scalar_mult(self.curve, th.r, th.l.H.value)]
    ELSE thread_ends(th, evaluate_from(self, th.r, th.l))

\* verify's thread after a commitment is computed with outcome o and kept
\* in the local named by the pc: the next statement, or the except clause.
verify_commitment_step(th, o, next) ==
    IF ~Returned(o) THEN thread_ends(th, verify_except(o))
    ELSE IF th.pc = "tG_plus_sP"
    THEN [th EXCEPT !.pc = next, !.l.tG_plus_sP = o]
    ELSE [th EXCEPT !.pc = next, !.l.tH_plus_sVRF = o]

\* The next statement of verify in the thread th: unpacking the proof and
\* hash_to_curve, tG_plus_sP, tH_plus_sVRF, then the lines from
\* challenge_data to the return; an exception ends the call in the except
\* clause.
verify_step(self, th) ==
    IF th.pc = "H"
    THEN IF Len(th.proof) # 3
         THEN thread_ends(th, verify_except(Raise("ValueError")))
         ELSE [th EXCEPT !.pc = "tG_plus_sP",
                         !.l.H = hash_to_curve(self.curve, th.message)]
    ELSE IF th.pc = "tG_plus_sP"
    THEN verify_commitment_step(th,
             commitment(self.curve,
                        scalar_mult(self.curve, th.proof[2], self.curve.G),
                        scalar_mult(self.curve, th.proof[1],
                                    self.public_key)),
             "tH_plus_sVRF")
    ELSE IF th.pc = "tH_plus_sVRF"
    THEN verify_commitment_step(th,
             commitment(self.curve,
                        scalar_mult(self.curve, th.proof[2], th.l.H.value),
                        scalar_mult(self.curve, th.proof[1], th.proof[3])),
             "compare")
    ELSE thread_ends(th,
             verify_except(
                 verify_compare(self, th.vrf_output, th.proof,
                     verify_data(self, th.l.H.value, th.proof[3],
                                 th.l.tG_plus_sP, th.l.tH_plus_sVRF))))

\* The next statement of the call the thread is in.
thread_step(self, th) ==
    IF th.op = "evaluate" THEN evaluate_step(self, th)
    ELSE verify_step(self, th)

\* One instance, no thread in a call.
InitThreads ==
    /\ vrf \in {ECVRF(private_key) : private_key \in ParticipantKeys}
    /\ issued = <<>>
    /\ call = [t \in Threads |-> IdleThread]

\* Thread t calls vrf.evaluate(message); r is the nonce the call will draw.
ThreadEvaluate(t, message, r) ==
    /\ call[t].pc = "idle"
    /\ call' = [call EXCEPT ![t] = [IdleThread EXCEPT !.op = "evaluate",
                                                      !.message = message,
                                                      !.r = r,
                                                      !.pc = "H"]]
    /\ UNCHANGED <<vrf, issued>>

\* Thread t calls vrf.verify(message, vrf_output, proof).
ThreadVerify(t, message, vrf_output, proof) ==
    /\ call[t].pc = "idle"
    /\ call' = [call EXCEPT ![t] = [IdleThread EXCEPT !.op = "verify",
                                                      !.message = message,
                                                      !.vrf_output = vrf_output,
                                                      !.proof = proof,
                                                      !.pc = "H"]]
    /\ UNCHANGED <<vrf, issued>>

\* Faulty variant of ThreadStep: H is kept where every call on the instance
\* reads it, as an attribute self.H would be.
ThreadStepSharedH(t) ==
    /\ call[t].pc \notin {"idle", "done", "loop"}
    /\ call' = [u \in Threads |->
                   IF u = t THEN thread_step(vrf, call[t])
                   ELSE [call[u] EXCEPT !.l.H = thread_step(vrf, call[t]).l.H]]
    /\ UNCHANGED <<vrf, issued>>

\* Thread t runs the next statement of its call; the statements read the
\* instance and write the call's locals only.
ThreadStep(t) ==
    /\ call[t].pc \notin {"idle", "done", "loop"}
    /\ call' = [call EXCEPT ![t] = thread_step(vrf, call[t])]
    /\ UNCHANGED <<vrf, issued>>

\* The call of thread t has ended and the thread is free for another call.
ThreadReturn(t) ==
    /\ call[t].pc = "done"
    /\ call' = [call EXCEPT ![t] = IdleThread]
    /\ UNCHANGED <<vrf, issued>>

NextThreads ==
    \/ \E t \in Threads, message \in ParticipantMessages, r \in ThreadNonces :
           ThreadEvaluate(t, message, r)
    \/ \E t \in Threads, a \in ThreadVerifyArgs(vrf) :
           ThreadVerify(t, a[1], a[2], a[3])
    \/ \E t \in Threads : ThreadStep(t)
    \/ \E t \in Threads : ThreadReturn(t)

SpecThreads == InitThreads /\ [][NextThreads]_vars

(***************************************************************************)
(* EllipticCurve.point_add and scalar_mult called on their own             *)
(***************************************************************************)

\* y^2 = x^3 + ax + b over the field, for an affine point.
OnCurve(c, P) ==
    /\ P.x \in 0..(c.p - 1)
    /\ P.y \in 0..(c.p - 1)
    /\ (P.y * P.y) % c.p = (P.x * P.x * P.x + c.a * P.x + c.b) % c.p

\* The group: the on-curve points and the point at infinity.
CurvePoints ==
    {P \in {Point(x, y) : x \in 0..(EllipticCurve.p - 1),
                          y \in 0..(EllipticCurve.p - 1)} :
         OnCurve(EllipticCurve, P)}
    \cup {Point(None, None)}

\* Points passed to point_add and scalar_mult: the group, and affine points
\* off the curve, with y = 0 and with y # 0.
PointArgs == CurvePoints \cup {Point(2, 0), Point(7, 8)}

\* Scalars passed to scalar_mult: every a + b with a, b in [0, n).
ScalarArgs == 0..(2 * EllipticCurve.n - 2)

\* An instance is constructed; its curve is the object of the calls.
InitCurve ==
    /\ vrf = ECVRF(1)
    /\ issued = <<>>
    /\ call = Idle

\* curve.point_add(P, Q)
PointAdd(P, Q) ==
    /\ call.op = "idle"
    /\ call' = [Idle EXCEPT !.op = "point_add",
                            !.locals = [P |-> P, Q |-> Q],
                            !.outcome = point_add(vrf.curve, P, Q)]
    /\ UNCHANGED <<vrf, issued>>

\* curve.scalar_mult(k, P)
ScalarMult(k, P) ==
    /\ call.op = "idle"
    /\ call' = [Idle EXCEPT !.op = "scalar_mult",
                            !.locals = [k |-> k, P |-> P],
                            !.outcome = scalar_mult(vrf.curve, k, P)]
    /\ UNCHANGED <<vrf, issued>>

NextCurve ==
    \/ \E P \in PointArgs, Q \in PointArgs : PointAdd(P, Q)
    \/ \E k \in ScalarArgs, P \in PointArgs : ScalarMult(k, P)
    \/ Continue

SpecCurve == InitCurve /\ [][NextCurve]_vars

(***************************************************************************)
(* EllipticCurve.hash_to_curve called on its own                           *)
(***************************************************************************)

\* Bytes of the messages hashed to the curve.
HashBytes == {0, 116, 255}

HashMessages == UNION {[1..l -> HashBytes] : l \in 0..MaxMsgLen}

\* curve.hash_to_curve(message); issued keeps the call before this one.
HashToCurve(message) ==
    /\ call' = [Idle EXCEPT !.op = "hash_to_curve",
                            !.message = message,
                            !.outcome = hash_to_curve(vrf.curve, message)]
    /\ issued' = IF call.op = "hash_to_curve" THEN <<call>> ELSE issued
    /\ vrf' = vrf

NextHash == \E message \in HashMessages : HashToCurve(message)

SpecHash == InitCurve /\ [][NextHash]_vars

(***************************************************************************)
(* EllipticCurve.mod_inverse called on its own                             *)
(***************************************************************************)

MaxModulus == 12

\* The moduli m > 1 and the operands a, negative ones and ones beyond m
\* included.
InverseModuli == 2..MaxModulus

InverseOperands == (0 - 2 * MaxModulus)..(2 * MaxModulus)

\* curve.mod_inverse(a, m)
ModInverse(a, m) ==
    /\ call.op = "idle"
    /\ call' = [Idle EXCEPT !.op = "mod_inverse",
                            !.locals = [a |-> a, m |-> m],
                            !.outcome = mod_inverse(a, m)]
    /\ UNCHANGED <<vrf, issued>>

NextInverse ==
    \/ \E a \in InverseOperands, m \in InverseModuli : ModInverse(a, m)
    \/ Continue

SpecInverse == InitCurve /\ [][NextInverse]_vars

(***************************************************************************)
(* bernoulli_chain_selection.py: strings are sequences of character codes, *)
(* digests and random byte strings are DigestLen bytes long; issued is the *)
(* caller's list hex_inputs, passed by reference                           *)
(***************************************************************************)

MaxInputs == 3

\* The character of a hexadecimal digit, '0'..'9' and 'a'..'f'.
hex_digit(d) == IF d < 10 THEN 48 + d ELSE 87 + d

\* bytes.hex() and hexdigest(): two digits per byte.
RECURSIVE bytes_hex_to(_, _)
bytes_hex_to(bytes, i) ==
    IF i = 0 THEN <<>>
    ELSE bytes_hex_to(bytes, i - 1)
             \o <<hex_digit(bytes[i] \div 16), hex_digit(bytes[i] % 16)>>

bytes_hex(bytes) == bytes_hex_to(bytes, Len(bytes))

\* sha256_hex(data); str.encode() of a string of hexadecimal digits is the
\* sequence of its character codes.
sha256_hex(data) == bytes_hex(sha256(data))

\* The value of a hexadecimal digit's character.
hex_value(ch) == IF ch <= 57 THEN ch - 48 ELSE ch - 87

\* int(h, 16)
RECURSIVE int_hex_to(_, _)
int_hex_to(h, i) ==
    IF i = 0 THEN 0 ELSE 16 * int_hex_to(h, i - 1) + hex_value(h[i])

int_hex(h) == int_hex_to(h, Len(h))

\* pick_index_from_seed
pick_index_from_seed(seed, pool_size) ==
    int_hex(sha256_hex(seed)) % pool_size

\* list[:stop]
slice_to(list, stop) ==
    IF stop >= 0
    THEN SubSeq(list, 1, IF stop < Len(list) THEN stop ELSE Len(list))
    ELSE SubSeq(list, 1, IF Len(list) + stop > 0 THEN Len(list) + stop ELSE 0)

\* The list after list.pop(idx), idx counted from 0.
list_pop(list, idx) ==
    SubSeq(list, 1, idx) \o SubSeq(list, idx + 2, Len(list))

\* The bytes os.urandom gives.
UrandomBytes == {4, 77, 200}

\* os.urandom(16).hex()
HexValues == {bytes_hex(<<b>>) : b \in UrandomBytes}

\* The lists the caller passes as hex_inputs.
HexInputs == UNION {[1..l -> HexValues] : l \in 0..MaxInputs}

\* Lines 30-41: the assert and the locals before the loop; seed is what
\* os.urandom gives.
chain_enter(hex_inputs, k, w, seed) ==
    [k |-> k, w |-> w, pc |-> IF w <= Len(hex_inputs) THEN "while" ELSE "done",
     original_pool |-> slice_to(hex_inputs, w),
     candidates |-> slice_to(hex_inputs, w),
     current_seed |-> sha256_hex(seed),
     selection_order |-> <<>>]

\* Faulty variant of chain_pick: the selected candidate stays in the pool.
chain_pick_keeps(l, idx) ==
    [l EXCEPT !.selection_order = Append(@, l.candidates[idx + 1]),
              !.current_seed = l.candidates[idx + 1]]

\* Lines 44-46: the body of the loop after idx is computed.
chain_pick(l, idx) ==
    [l EXCEPT !.candidates = list_pop(@, idx),
              !.selection_order = Append(@, l.candidates[idx + 1]),
              !.current_seed = l.candidates[idx + 1]]

\* Lines 48-49
chain_return(l) ==
    Return(<<slice_to(l.selection_order, l.k), l.selection_order,
             sha256_hex(l.current_seed), l.original_pool>>)

\* The script has its list hex_inputs; there is no ECVRF instance.
InitChain ==
    /\ vrf = None
    /\ issued \in HexInputs
    /\ call = Idle

\* bernoulli_chain_selection_from_hex(hex_inputs, k, w) is called and runs
\* to the loop, or fails the assert.
ChainCall(k, w, seed) ==
    /\ call.op = "idle"
    /\ call' = [Idle EXCEPT
                   !.op = "bernoulli_chain_selection_from_hex",
                   !.locals = chain_enter(issued, k, w, seed),
                   !.outcome = IF w <= Len(issued) THEN Return(None)
                               ELSE Raise("AssertionError")]
    /\ UNCHANGED <<vrf, issued>>

\* One pass of the while loop.
ChainPick ==
    /\ call.op = "bernoulli_chain_selection_from_hex"
    /\ call.locals.pc = "while"
    /\ call.locals.candidates # <<>>
    /\ call' = [call EXCEPT
                   !.locals = chain_pick(@,
                       pick_index_from_seed(call.locals.current_seed,
                                            Len(call.locals.candidates)))]
    /\ UNCHANGED <<vrf, issued>>

\* The loop ends and the function returns.
ChainReturn ==
    /\ call.op = "bernoulli_chain_selection_from_hex"
    /\ call.locals.pc = "while"
    /\ call.locals.candidates = <<>>
    /\ call' = [call EXCEPT !.locals.pc = "done",
                            !.outcome = chain_return(call.locals)]
    /\ UNCHANGED <<vrf, issued>>

\* The caller goes on after the return or the AssertionError.
ChainContinue ==
    /\ call.op = "bernoulli_chain_selection_from_hex"
    /\ call.locals.pc = "done"
    /\ call' = Idle
    /\ UNCHANGED <<vrf, issued>>

NextChain ==
    \/ \E k \in 0..(MaxInputs + 1), w \in 0..(MaxInputs + 1),
          b \in UrandomBytes : ChainCall(k, w, <<b>>)
    \/ ChainPick
    \/ ChainReturn
    \/ ChainContinue

SpecChain == InitChain /\ [][NextChain]_vars

(***************************************************************************)
(* Properties                                                              *)
(***************************************************************************)

PrivateKeys == 1..(EllipticCurve.n - 1)

\* The last call is verify on exactly what evaluate returned for a message.
VerifiesIssued ==
    /\ call.op = "verify"
    /\ issued # <<>>
    /\ call.message = issued[1].message
    /\ call.vrf_output = issued[1].vrf_output
    /\ call.proof = issued[1].proof

\* The last call is verify on what evaluate returned, with another message.
VerifiesOtherMessage ==
    /\ call.op = "verify"
    /\ issued # <<>>
    /\ call.message # issued[1].message
    /\ call.vrf_output = issued[1].vrf_output
    /\ call.proof = issued[1].proof

\* The last call is verify on what evaluate returned with one bit changed
\* in one of s, t, V, output.
VerifiesTampered ==
    /\ call.op = "verify"
    /\ issued # <<>>
    /\ <<call.message, call.vrf_output, call.proof>> \in Tampered(issued[1])

Accepted == call.outcome.kind = "return" /\ call.outcome.value = TRUE

Rejected == call.outcome.kind = "return" /\ call.outcome.value = FALSE

\* None of the HashAttempts candidates from SHA-256(message) mod p has a
\* quadratic residue x^3 + b.
Exhausted(c, message) ==
    LET x0 == from_bytes(sha256(message)) % c.p
    IN  \A i \in 0..(HashAttempts - 1) :
            pow((pow((x0 + i) % c.p, 3, c.p) + c.b) % c.p,
                (c.p - 1) \div 2, c.p) # 1

\* C1: evaluate returns without raising for every keypair, message and
\* nonce, and verify on the returned output and proof returns true.
C1_Completeness ==
    /\ call.op = "evaluate" => Returned(call.outcome)
    /\ VerifiesIssued => Accepted

\* C2: when no candidate of hash_to_curve is a quadratic residue, the call
\* fails with HashToCurveError and no point, the generator included, comes
\* back as H.
C2_ExhaustionRaises ==
    call.op = "evaluate" /\ Exhausted(vrf.curve, call.message)
        => /\ call.locals.H.kind = "raise"
           /\ call.outcome.kind = "raise"
           /\ call.outcome.value = "HashToCurveError"

\* C3: verify never raises; whenever the recomputation raises, verify
\* returns false.  (A verify that returned something else than false is
\* one whose recomputation did not raise.)
C3_VerifyNeverRaises ==
    call.op = "verify"
        => /\ call.outcome.kind # "raise"
           /\ \/ Rejected
              \/ verify_try(vrf, call.message, call.vrf_output,
                            call.proof).kind # "raise"

\* C3 witness: the recomputation raised on a V that cannot be encoded and
\* verify returned false.
C3_Witness ==
    /\ call.op = "verify"
    /\ Len(call.proof) = 3
    /\ call.proof[3].y = None
    /\ verify_try(vrf, call.message, call.vrf_output, call.proof).kind = "raise"
    /\ verify_try(vrf, call.message, call.vrf_output, call.proof).value
           = "TypeError"
    /\ Rejected

C6_OutputDeterministic ==
    call.op = "evaluate" /\ Returned(call.outcome) =>
        LET c == vrf.curve
            V == scalar_mult(c, vrf.private_key,
                             hash_to_curve(c, call.message).value).value
            o == evaluate(vrf, call.message, (call.r % (c.n - 1)) + 1)
        IN  /\ call.outcome.value[2][3] = V
            /\ call.outcome.value[1] = sha256(coord_bytes(V).value)
            /\ Returned(o)
            /\ o.value[1] = call.outcome.value[1]
            /\ o.value[2][3] = call.outcome.value[2][3]

\* C6 witness: evaluate returned, and with the next nonce it returns other
\* scalars s and t.
C6_Witness ==
    /\ call.op = "evaluate"
    /\ Returned(call.outcome)
    /\ LET o == evaluate(vrf, call.message, (call.r % (vrf.curve.n - 1)) + 1)
       IN  /\ o.value[2][1] # call.outcome.value[2][1]
           /\ o.value[2][2] # call.outcome.value[2][2]

\* C7: the private key is in [1, n), the public key is sk * G and is not
\* the point at infinity.
C7_KeyPair ==
    /\ vrf.private_key \in PrivateKeys
    /\ vrf.public_key
           = scalar_mult(vrf.curve, vrf.private_key, vrf.curve.G).value
    /\ ~vrf.public_key.infinity

\* C8: with a private key in [1, n), for every nonce evaluate can draw,
\* none of H, pk, V, rG, rH is the point at infinity when evaluate encodes
\* them, and the encoding does not fail.
C8_NoInfinityEncoded ==
    call.op = "evaluate" /\ vrf.private_key \in PrivateKeys =>
        /\ ~call.locals.H.value.infinity
        /\ ~vrf.public_key.infinity
        /\ ~call.locals.VRF.value.infinity
        /\ ~call.locals.rG.value.infinity
        /\ ~call.locals.rH.value.infinity
        /\ Returned(call.outcome)

\* C9: verify returns a boolean for every proof (s, t, V) with integers s
\* and t of any sign and size.
C9_VerifyTerminates ==
    call.op = "verify" /\ Len(call.proof) = 3 =>
        /\ call.outcome.kind = "return"
        /\ call.outcome.value \in BOOLEAN

\* The instance with the same curve and public key and another private key.
OtherHolder(self, d) ==
    [self EXCEPT !.private_key = (self.private_key + d) % self.curve.n]

\* C10: an instance with the same public key and another private key
\* returns from verify what this instance returned.
C10_VerifyIgnoresPrivateKey ==
    call.op = "verify" =>
        \A d \in {1, 12} :
            LET o == verify(OtherHolder(vrf, d), call.message,
                            call.vrf_output, call.proof)
            IN  /\ o.kind = call.outcome.kind
                /\ o.kind = "return" => o.value = call.outcome.value

\* C10 witness: verify accepted an issued proof, so the comparison is of
\* two accepting runs.
C10_Witness == VerifiesIssued /\ Accepted

(***************************************************************************)
(* Properties of point_add and scalar_mult                                 *)
(***************************************************************************)

\* C14: point_add(P, P) for an affine P with y = 0 returns the point at
\* infinity and raises nothing.
C14_DoublingAtYZeroIsInfinity ==
    /\ call.op = "point_add"
    /\ ~call.locals.P.infinity
    /\ call.locals.P.y = 0
    /\ call.locals.Q = call.locals.P
    => /\ Returned(call.outcome)
       /\ call.outcome.value.infinity

\* The last call is scalar_mult(k, P) with P in the group.
ScalarMultOnCurve ==
    /\ call.op = "scalar_mult"
    /\ call.locals.P \in CurvePoints

\* The last call is point_add(P, Q) with P and Q in the group.
PointAddOnCurve ==
    /\ call.op = "point_add"
    /\ call.locals.P \in CurvePoints
    /\ call.locals.Q \in CurvePoints

\* C17: for P in the group and a, b in [0, n), scalar_mult(a + b, P) returns
\* and equals point_add(scalar_mult(a, P), scalar_mult(b, P)).
C17_ScalarMultDistributes ==
    ScalarMultOnCurve =>
        \A a \in 0..(vrf.curve.n - 1) :
            (call.locals.k - a) \in 0..(vrf.curve.n - 1) =>
                LET c  == vrf.curve
                    aP == scalar_mult(c, a, call.locals.P)
                    bP == scalar_mult(c, call.locals.k - a, call.locals.P)
                    sum == point_add(c, aP.value, bP.value)
                IN  /\ Returned(call.outcome)
                    /\ Returned(aP) /\ Returned(bP) /\ Returned(sum)
                    /\ PointEq(call.outcome.value, sum.value)

\* C17 witness: k = n on an affine point of the group, so that the summands
\* of a + b = n are inverse points, and the product is the point at infinity.
C17_Witness ==
    /\ ScalarMultOnCurve
    /\ ~call.locals.P.infinity
    /\ call.locals.k = vrf.curve.n
    /\ Returned(call.outcome)
    /\ call.outcome.value.infinity

\* C18: for P in the group and a, k in [0, n), scalar_mult(a, scalar_mult(k,
\* P)) returns and equals scalar_mult(a * k mod n, P).
C18_ScalarMultComposes ==
    ScalarMultOnCurve /\ call.locals.k \in 0..(vrf.curve.n - 1) =>
        /\ Returned(call.outcome)
        /\ \A a \in 0..(vrf.curve.n - 1) :
               LET c     == vrf.curve
                   outer == scalar_mult(c, a, call.outcome.value)
                   prod  == scalar_mult(c, (a * call.locals.k) % c.n,
                                        call.locals.P)
               IN  /\ Returned(outer) /\ Returned(prod)
                   /\ PointEq(outer.value, prod.value)

\* C18 witness: the inner call is scalar_mult(0, P) on an affine point of the
\* group and returns the point at infinity.
C18_Witness ==
    /\ ScalarMultOnCurve
    /\ ~call.locals.P.infinity
    /\ call.locals.k = 0
    /\ Returned(call.outcome)
    /\ call.outcome.value.infinity

\* C19: on the group, point_add returns a point of the group, point_add(P, Q)
\* equals point_add(Q, P), and point_add(point_add(P, Q), R) equals
\* point_add(P, point_add(Q, R)) for every R of the group.
C19_PointAddCommutesAssociates ==
    PointAddOnCurve =>
        LET c  == vrf.curve
            P  == call.locals.P
            Q  == call.locals.Q
            QP == point_add(c, Q, P)
        IN  /\ Returned(call.outcome)
            /\ call.outcome.value \in CurvePoints
            /\ Returned(QP)
            /\ PointEq(call.outcome.value, QP.value)
            /\ \A R \in CurvePoints :
                   LET QR    == point_add(c, Q, R)
                       left  == point_add(c, call.outcome.value, R)
                       right == point_add(c, P, QR.value)
                   IN  /\ Returned(QR) /\ Returned(left) /\ Returned(right)
                       /\ PointEq(left.value, right.value)

\* C19 witness: two different affine points of the group whose sum is affine.
C19_Witness ==
    /\ PointAddOnCurve
    /\ ~call.locals.P.infinity
    /\ ~call.locals.Q.infinity
    /\ call.locals.P # call.locals.Q
    /\ Returned(call.outcome)
    /\ ~call.outcome.value.infinity

\* C20: for every point P, on the curve or not, point_add(P, O) and
\* point_add(O, P) return P, and scalar_mult(0, P) returns O.
C20_InfinityIsIdentity ==
    /\ call.op = "point_add" /\ call.locals.Q.infinity
           => /\ Returned(call.outcome)
              /\ PointEq(call.outcome.value, call.locals.P)
    /\ call.op = "point_add" /\ call.locals.P.infinity
           => /\ Returned(call.outcome)
              /\ PointEq(call.outcome.value, call.locals.Q)
    /\ call.op = "scalar_mult" /\ call.locals.k = 0
           => /\ Returned(call.outcome)
              /\ call.outcome.value.infinity

\* C20 witness: an affine point added to the point at infinity.
C20_Witness ==
    /\ call.op = "point_add"
    /\ ~call.locals.P.infinity
    /\ call.locals.Q.infinity
    /\ Returned(call.outcome)
    /\ call.outcome.value = call.locals.P

(***************************************************************************)
(* Properties of verify's decision                                         *)
(***************************************************************************)

\* The outcome of the recomputation of the last verify call: the challenge
\* data, or the exception that stopped it (ValueError when the proof does
\* not unpack into three items), or no end.
Recomputation ==
    IF Len(call.proof) # 3 THEN Raise("ValueError")
    ELSE verify_challenge_data(vrf, call.message, call.proof)

\* The challenge recomputed from the data d equals the proof's s.
ChallengeMatches(d) == challenge(vrf.curve, d.value) = call.proof[1]

\* The output presented to the last verify call is SHA-256(V.x || V.y).
OutputMatches ==
    call.vrf_output = sha256(coord_bytes(call.proof[3]).value)

\* C15: verify returns true exactly when the recomputation completes, the
\* recomputed challenge equals s and output equals SHA-256(V.x || V.y); when
\* the recomputation completes and one of the equalities fails it returns
\* false.
C15_VerifyAcceptsExactly ==
    call.op = "verify" =>
        LET d == Recomputation
        IN  /\ Accepted <=> /\ Returned(d)
                            /\ ChallengeMatches(d)
                            /\ OutputMatches
            /\ Returned(d) /\ ~(ChallengeMatches(d) /\ OutputMatches)
                   => Rejected

\* C15 witness: the recomputation completes and the challenge equals s, the
\* output is not the digest of V, and verify returns false.
C15_Witness ==
    /\ call.op = "verify"
    /\ Returned(Recomputation)
    /\ ChallengeMatches(Recomputation)
    /\ ~OutputMatches
    /\ Rejected

\* The last call is verify on an issued proof (s, t, V) that verify accepts,
\* presented as (s, t + n, V) with the same message and output.
VerifiesOrderAddedToT ==
    /\ call.op = "verify"
    /\ issued # <<>>
    /\ call.message = issued[1].message
    /\ call.vrf_output = issued[1].vrf_output
    /\ call.proof = <<issued[1].proof[1], issued[1].proof[2] + vrf.curve.n,
                      issued[1].proof[3]>>
    /\ verify(vrf, issued[1].message, issued[1].vrf_output, issued[1].proof)
           = Return(TRUE)

\* C16: verify returns false for every proof whose s or t is outside
\* [0, n); in particular, when (s, t, V) is accepted for a message and
\* output, (s, t + n, V) is rejected for the same message and output.
C16_OrderAddedToTRejected == VerifiesOrderAddedToT => Rejected

(***************************************************************************)
(* Properties of the instance across calls                                 *)
(***************************************************************************)

\* The instance as ECVRF.__init__ builds it for its private key: the curve
\* constants and public_key = private_key * G.
AsConstructed(self) == self = ECVRF(self.private_key)

\* C12: every evaluate and verify call, returning or failing, leaves
\* private_key, public_key and the curve constants as they were, equal to
\* their values at construction; after a call that raised or never ended, an
\* instance with a key in [1, n) still evaluates and verifies.
C12_CallsLeaveInstance ==
    [][call'.op \in {"evaluate", "verify"} =>
          /\ vrf' = vrf
          /\ AsConstructed(vrf')
          /\ ~Returned(call'.outcome) /\ vrf'.private_key \in PrivateKeys =>
                 LET o == evaluate(vrf', call'.message, 1)
                 IN  /\ Returned(o)
                     /\ verify(vrf', call'.message, o.value[1], o.value[2])
                            = Return(TRUE)]_vars

\* C12 witness: an evaluate call raised on an instance with a key in
\* [1, n), which is as constructed.
C12_Witness ==
    /\ call.op = "evaluate"
    /\ call.outcome.kind = "raise"
    /\ vrf.private_key \in PrivateKeys
    /\ AsConstructed(vrf)

(***************************************************************************)
(* Properties of the collective randomness                                 *)
(***************************************************************************)

\* The number of messages of the participants before the i-th.
RECURSIVE MessagesBefore(_, _)
MessagesBefore(participants, i) ==
    IF i = 1 THEN 0
    ELSE MessagesBefore(participants, i - 1)
             + Len(participants[i - 1].messages)

\* all_results with its i-th and j-th items exchanged.
Exchanged(all_results, i, j) ==
    [all_results EXCEPT ![i] = all_results[j], ![j] = all_results[i]]

\* C11: all_results holds the outputs in participant order, then message
\* order within a participant; the collective randomness is SHA-256 of the
\* bytes of these outputs one after the other in that order; and exchanging
\* two different outputs changes the hashed bytes.
C11_CollectiveIsDigestInOrder ==
    /\ call.op = "process" /\ Returned(call.outcome) =>
           LET ps  == call.locals.participants
               res == call.outcome.value
           IN  /\ Len(res) = MessagesBefore(ps, Len(ps) + 1)
               /\ \A i \in 1..Len(ps) : \A j \in 1..Len(ps[i].messages) :
                      LET result == res[MessagesBefore(ps, i) + j]
                      IN  /\ result.participant = ps[i].name
                          /\ result.message = ps[i].messages[j]
                          /\ result.vrf_output = ps[i].vrf_outputs[j]
                          /\ result.vrf_output
                                 = evaluate(vrf, ps[i].messages[j], 1).value[1]
    /\ call.op = "analyze" =>
           LET preimage == combined_output(issued)
           IN  /\ Len(preimage) = Len(issued) * DigestLen
               /\ \A i \in 1..Len(issued) : \A j \in 1..DigestLen :
                      preimage[(i - 1) * DigestLen + j]
                          = issued[i].vrf_output[j]
               /\ call.outcome = Return(sha256(preimage))
               /\ \A i \in 1..Len(issued) : \A j \in 1..Len(issued) :
                      issued[i].vrf_output # issued[j].vrf_output
                          => combined_output(Exchanged(issued, i, j))
                                 # preimage

\* C11 witness: the outputs of two participants differ, and the digest of
\* the outputs in the other order is another digest.
C11_Witness ==
    /\ call.op = "analyze"
    /\ Len(issued) >= 2
    /\ issued[1].participant # issued[2].participant
    /\ issued[1].vrf_output # issued[2].vrf_output
    /\ call.outcome.value
           # analyze_collective_randomness(Exchanged(issued, 1, 2))

(***************************************************************************)
(* Properties of calls from threads                                        *)
(***************************************************************************)

\* What the call of thread th returns when it runs alone on the instance
\* with the same arguments and nonce.
Alone(self, th) ==
    IF th.op = "evaluate" THEN evaluate(self, th.message, th.r)
    ELSE verify(self, th.message, th.vrf_output, th.proof)

\* C13: in every interleaving of the statements of the threads' evaluate and
\* verify calls on one instance, the instance is as constructed, every local
\* a call has assigned has the value the call alone computes, and a call
\* that has ended has the outcome it has when run alone with the same
\* arguments and nonce.
C13_InterleavedCallsAsAlone ==
    /\ AsConstructed(vrf)
    /\ \A t \in Threads :
           /\ call[t].pc \notin {"idle", "H"}
                  => call[t].l.H = hash_to_curve(vrf.curve, call[t].message)
           /\ call[t].op = "evaluate" /\ call[t].pc \in {"rG", "rH", "challenge"}
                  => call[t].l.VRF
                         = evaluate_locals(vrf, call[t].message, call[t].r).VRF
           /\ call[t].pc \in {"done", "loop"}
                  => call[t].outcome = Alone(vrf, call[t])

\* C13 witness: one thread's evaluate call has returned while the other
\* thread is in the middle of a verify call that hashed another message.
C13_Witness ==
    /\ call[1].op = "evaluate"
    /\ call[1].pc = "done"
    /\ Returned(call[1].outcome)
    /\ call[2].op = "verify"
    /\ call[2].pc = "tH_plus_sVRF"
    /\ call[2].message # call[1].message

(***************************************************************************)
(* Properties of hash_to_curve                                             *)
(***************************************************************************)

\* v is a non-zero square of the field.
QuadraticResidue(c, v) == \E z \in 1..(c.p - 1) : (z * z) % c.p = v

\* x^3 + b of the candidate x.
CandidateSquare(c, x) == (x * x * x + c.b) % c.p

\* The attempts, counted from 0, whose candidate x0 + i has a quadratic
\* residue x^3 + b.
PassingAttempts(c, message) ==
    {i \in 0..(HashAttempts - 1) :
         QuadraticResidue(c,
             CandidateSquare(c, (from_bytes(sha256(message)) + i) % c.p))}

\* C21: hash_to_curve gives the same point on a repeated call with the same
\* message; when one of the candidates x0, x0+1, ... (mod p) from
\* x0 = SHA-256(m) mod p has a quadratic residue x^3 + b, it returns (x, y)
\* for the first such x, with y = (x^3 + b)^((p+1)/4) mod p, and the point
\* satisfies y^2 = x^3 + a*x + b (mod p).
C21_HashToCurveFirstResidue ==
    call.op = "hash_to_curve" =>
        LET c == vrf.curve
            passing == PassingAttempts(c, call.message)
            first == CHOOSE i \in passing : \A j \in passing : i <= j
            x == (from_bytes(sha256(call.message)) + first) % c.p
        IN  /\ \A i \in 1..Len(issued) :
                   issued[i].message = call.message
                       => issued[i].outcome = call.outcome
            /\ passing # {} =>
                   /\ call.outcome
                          = Return(Point(x, pow(CandidateSquare(c, x),
                                                (c.p + 1) \div 4, c.p)))
                   /\ OnCurve(c, call.outcome.value)

\* C21 witness: a second call with the same message, whose first candidate
\* has no quadratic residue and a later one has.
C21_Witness ==
    /\ call.op = "hash_to_curve"
    /\ issued # <<>>
    /\ issued[1].message = call.message
    /\ PassingAttempts(vrf.curve, call.message) # {}
    /\ 0 \notin PassingAttempts(vrf.curve, call.message)
    /\ Returned(call.outcome)
    /\ call.outcome.value.x
           # from_bytes(sha256(call.message)) % vrf.curve.p

(***************************************************************************)
(* Properties of mod_inverse                                               *)
(***************************************************************************)

\* gcd(a, m) = 1, by the common divisors.
Coprime(a, m) == \A d \in 2..m : ~(a % d = 0 /\ m % d = 0)

\* With gcd(a, m) = 1 the call returns x in [0, m) with a*x = 1 (mod m).
InverseOfCoprime ==
    call.op = "mod_inverse" /\ Coprime(call.locals.a, call.locals.m)
        => /\ Returned(call.outcome)
           /\ call.outcome.value \in 0..(call.locals.m - 1)
           /\ (call.locals.a * call.outcome.value) % call.locals.m = 1

\* With gcd(a, m) # 1 the call raises and returns no value.
NoInverseRaises ==
    call.op = "mod_inverse" /\ ~Coprime(call.locals.a, call.locals.m)
        => call.outcome.kind = "raise"

\* C22: mod_inverse(a, m) for m > 1 and any integer a returns x in [0, m)
\* with a*x = 1 (mod m) when gcd(a, m) = 1, and fails with an
\* ArithmeticError, returning no value, when gcd(a, m) # 1.
C22_InverseOrArithmeticError ==
    /\ InverseOfCoprime
    /\ NoInverseRaises
    /\ call.op = "mod_inverse" /\ ~Coprime(call.locals.a, call.locals.m)
           => call.outcome = Raise("ArithmeticError")

(***************************************************************************)
(* Properties of the chain selection                                       *)
(***************************************************************************)

\* s and t hold the same items the same number of times.
IsPermutation(s, t) ==
    /\ Len(s) = Len(t)
    /\ \A i \in 1..Len(s) :
           Cardinality({j \in 1..Len(s) : s[j] = s[i]})
               = Cardinality({j \in 1..Len(t) : t[j] = s[i]})

\* The call is in or after the loop: the assert passed.
InChain(c) ==
    /\ c.op = "bernoulli_chain_selection_from_hex"
    /\ c.outcome.kind # "raise"

\* The step is a pick: it removes one candidate from the pool, appends it to
\* the trail and makes it the seed.
PicksOne(l, m) ==
    \E i \in 1..Len(l.candidates) :
        /\ m.candidates = list_pop(l.candidates, i - 1)
        /\ m.selection_order = Append(l.selection_order, l.candidates[i])
        /\ m.current_seed = l.candidates[i]

\* C23: with w <= len(hex_inputs), every pick removes the chosen candidate
\* from the pool and makes it the next seed; picks and pool together are
\* always the first w inputs, so the loop ends after exactly w picks with
\* the pool empty; the returned trail is a permutation of the first w
\* inputs, the winners are its first k entries, and the caller's hex_inputs
\* is never changed.
C23_ChainSelectsEachOnce ==
    [][/\ issued' = issued
       /\ InChain(call')
              => /\ call'.locals.original_pool
                        = SubSeq(issued, 1, call'.locals.w)
                 /\ IsPermutation(call'.locals.selection_order
                                      \o call'.locals.candidates,
                                  SubSeq(issued, 1, call'.locals.w))
                 /\ InChain(call) /\ call'.locals.pc = "while"
                        => PicksOne(call.locals, call'.locals)
                 /\ call'.locals.pc = "done"
                        => /\ call'.locals.candidates = <<>>
                           /\ Len(call'.locals.selection_order)
                                  = call'.locals.w
                           /\ Returned(call'.outcome)
                           /\ call'.outcome.value[2]
                                  = call'.locals.selection_order
                           /\ call'.outcome.value[1]
                                  = SubSeq(call'.locals.selection_order, 1,
                                        IF call'.locals.k < call'.locals.w
                                        THEN call'.locals.k
                                        ELSE call'.locals.w)]_vars

\* C23 witness: a call with 0 < k < w < len(hex_inputs) has returned a trail
\* in another order than the inputs'.
C23_Witness ==
    /\ call.op = "bernoulli_chain_selection_from_hex"
    /\ call.locals.pc = "done"
    /\ Returned(call.outcome)
    /\ 0 < call.locals.k
    /\ call.locals.k < call.locals.w
    /\ call.locals.w < Len(issued)
    /\ call.outcome.value[2] # call.locals.original_pool
    /\ Len(call.outcome.value[1]) = call.locals.k

====
